---------------------------- MODULE Spec2Model ----------------------------
(***************************************************************************)
(* A model of electrumx/server/mempool.py: the MemPool object that keeps   *)
(* an index of the daemon's unconfirmed transactions.                      *)
(*                                                                         *)
(* The reconciler task (_refresh_hashes) repeatedly asks the daemon for    *)
(* its mempool hashes, evicts the transactions that disappeared, fetches   *)
(* and digests the new ones in concurrent chunk tasks (_fetch_and_accept), *)
(* accepts them (_accept_transactions) and publishes the touched hashXs    *)
(* through on_mempool.                                                     *)
(***************************************************************************)
EXTENDS Integers, Sequences, FiniteSets, TLC

(***************************************************************************)
(* Bounds of the model.                                                    *)
(***************************************************************************)
\* Number of passes of the `while True` loop of _refresh_hashes explored.
MaxCycles == 3
\* The daemon and DB heights range over 1..MaxHeight.
MaxHeight == 2
\* chunks(new_hashes, 200): the chunk length, scaled down so that the three
\* transactions of the catalogue are spread over concurrent tasks.
ChunkSize == 2

\* _compress_histogram is tried on histograms whose fee rates (in tenths of
\* sat/byte) are in 1..MaxRate and bucket sizes in 1..MaxSize, with
\* bin_size in 1..MaxBinSize.
MaxRate == 4
MaxSize == 7
MaxBinSize == 3

Heights == 1..MaxHeight

(***************************************************************************)
(* Generic helpers for Python dicts, sets and tuples.                      *)
(***************************************************************************)
Range(s) == {s[i] : i \in 1..Len(s)}

Max(a, b) == IF a >= b THEN a ELSE b

\* dict.get(k, d)
Get(f, k, d) == IF k \in DOMAIN f THEN f[k] ELSE d

\* d[k] = v
Put(f, k, v) == [x \in (DOMAIN f) \cup {k} |-> IF x = k THEN v ELSE f[x]]

\* d.pop(k, None) for one key, and for a set of keys
Del(f, k) == [x \in (DOMAIN f) \ {k} |-> f[x]]

DelAll(f, ks) == [x \in (DOMAIN f) \ ks |-> f[x]]

\* d.update(e)
Update(f, e) == [x \in (DOMAIN f) \cup (DOMAIN e) |->
                    IF x \in DOMAIN e THEN e[x] ELSE f[x]]

EmptyMap == [x \in {} |-> 0]

\* list(a_set): the iteration order of a Python set is arbitrary
Perms(S) == {s \in [1..Cardinality(S) -> S] :
                \A i, j \in 1..Cardinality(S) : s[i] = s[j] => i = j}

\* electrumx.lib.util.chunks(items, size)
RECURSIVE chunks(_, _)
chunks(items, size) ==
    IF Len(items) <= size THEN (IF items = <<>> THEN <<>> ELSE <<items>>)
    ELSE <<SubSeq(items, 1, size)>> \o chunks(SubSeq(items, size + 1, Len(items)), size)

(***************************************************************************)
(* Hashes.  A binary tx hash is a name; its hex string is a tagged copy,   *)
(* so that a hash and its hex form are different values.                   *)
(***************************************************************************)
Hashes == {"A", "B", "C"}

hash_to_hex_str(h) == <<"hex", h>>

hex_str_to_hash(hh) == hh[2]

(***************************************************************************)
(* The catalogue of raw transactions the daemon can serve, as read_tx      *)
(* returns them.  An input is generation-like or names a prevout; an       *)
(* output carries the hashX of its script, its native value, and the       *)
(* shape of its asset payload:                                             *)
(*   "plain"  no OP_RVN_ASSET in the script                                *)
(*   "o"      owner token; "q" new asset; "r" reissue; "t" transfer        *)
(*   "early"  the payload parse raises before the asset type and name are  *)
(*            read (no tuple appended yet)                                 *)
(*   "late"   a q/r payload whose parse raises after the quantity was read *)
(*            and the asset tuple appended (truncated metadata)            *)
(***************************************************************************)
Gen == [gen |-> TRUE, prev_hash |-> "-", prev_idx |-> 0]

In(h, i) == [gen |-> FALSE, prev_hash |-> h, prev_idx |-> i]

Out(sh, v, k, n, q) == [sh |-> sh, value |-> v, kind |-> k, name |-> n, qty |-> q]

RawCatalogue ==
    [h \in Hashes |->
        CASE h = "A" ->
                [inputs  |-> <<In("X", 0)>>,
                 outputs |-> <<Out("s1", 4, "plain", "None", 0),
                               Out("s1", 0, "q", "FOO", 5),
                               Out("s1", 1, "late", "BAZ", 9)>>,
                 size    |-> 2]
          [] h = "B" ->
                [inputs  |-> <<In("X", 0), In("C", 1)>>,
                 outputs |-> <<Out("s0", 3, "plain", "None", 0),
                               Out("s2", 0, "q", "FOO", 6)>>,
                 size    |-> 3]
          [] OTHER ->
                [inputs  |-> <<Gen>>,
                 outputs |-> <<Out("s3", 2, "early", "None", 0),
                               Out("s3", 0, "r", "BAR", 7)>>,
                 size    |-> 1]]

HashXs == {"s0", "s1", "s2", "s3"}

AssetNames == {"FOO", "BAR", "BAZ"}

\* What the DB holds for the external prevout: lookup_utxos gives
\* (hashX, value), lookup_assets gives (hashX, value, name).
DbUtxo(prevout) == <<"s0", 20>>

DbAsset(prevout) == <<"s0", 8, "BAR">>


(***************************************************************************)
(* The digester: deserialize_txs of _fetch_and_accept.                     *)
(***************************************************************************)
\* the quantity of an owner token
OwnerSats == 100000000

\* raw_transactions returns None for a transaction the daemon no longer has
NoneRaw == [inputs |-> <<>>, outputs |-> <<>>, size |-> 0]

\* api.raw_transactions(hex_hashes) when the daemon has dropped `gone`
raw_transactions(hex_hashes, gone) ==
    [i \in 1..Len(hex_hashes) |->
        IF hex_str_to_hash(hex_hashes[i]) \in gone THEN NoneRaw
        ELSE RawCatalogue[hex_str_to_hash(hex_hashes[i])]]

\* the AssetIssuance record; divisions, reissuable and ipfs are copied from
\* the payload and read by nothing in this module
AssetStats(sats, tx_hash, vout_n) ==
    [sats_in_circulation |-> sats,
     source |-> [tx_hash |-> hash_to_hex_str(tx_hash), tx_pos |-> vout_n, height |-> -1]]

MemPoolTx(prevouts, in_pairs, out_pairs, fee, size) ==
    [prevouts |-> prevouts, in_pairs |-> in_pairs, out_pairs |-> out_pairs,
     fee |-> fee, size |-> size]

\* txin_pairs: the prevouts of the inputs that are not generation-like
txin_pairs(inputs) ==
    LET keep == {i \in 1..Len(inputs) : ~inputs[i].gen}
        RECURSIVE Walk(_)
        Walk(i) == IF i > Len(inputs) THEN <<>>
                   ELSE IF i \in keep
                        THEN <<(<<inputs[i].prev_hash, inputs[i].prev_idx>>)>> \o Walk(i + 1)
                        ELSE Walk(i + 1)
    IN Walk(1)

\* One pass of the body of `for vout_n, txout in enumerate(tx.outputs)`.
\* acc holds txout_tuple_list and the two per-batch asset_meta maps.
DigestOutput(acc, tx_hash, vout_n, o) ==
    LET plain    == <<o.sh, o.value, FALSE, "None">>
        asset(v) == <<o.sh, v, TRUE, o.name>>
    IN CASE o.kind = "o" ->
              [acc EXCEPT !.pairs = Append(@, asset(OwnerSats)),
                          !.creates = Put(@, o.name, AssetStats(OwnerSats, tx_hash, vout_n))]
         [] o.kind = "q" ->
              [acc EXCEPT !.pairs = Append(@, asset(o.qty)),
                          !.creates = Put(@, o.name, AssetStats(o.qty, tx_hash, vout_n))]
         [] o.kind = "r" ->
              [acc EXCEPT !.pairs = Append(@, asset(o.qty)),
                          !.reissues = Put(@, o.name, AssetStats(o.qty, tx_hash, vout_n))]
         [] o.kind = "t" ->
              [acc EXCEPT !.pairs = Append(@, asset(o.qty))]
         \* the asset tuple was appended, `value` was overwritten by the
         \* quantity, then a read raised: the handler appends once more
         [] o.kind = "late" ->
              [acc EXCEPT !.pairs = @ \o <<asset(o.qty), <<o.sh, o.qty, FALSE, "None">>>>]
         \* "plain", and "early" where the handler appends the plain tuple
         [] OTHER ->
              [acc EXCEPT !.pairs = Append(@, plain)]

RECURSIVE DigestOutputs(_, _, _, _)
DigestOutputs(acc, tx_hash, outputs, vout_n) ==
    IF vout_n >= Len(outputs) THEN acc
    ELSE DigestOutputs(DigestOutput(acc, tx_hash, vout_n, outputs[vout_n + 1]),
                       tx_hash, outputs, vout_n + 1)

\* deserialize_txs: returns the digested txs (a dict, so with its insertion
\* order), asset_meta_creates and asset_meta_reissues.
RECURSIVE DeserializeFrom(_, _, _, _)
DeserializeFrom(acc, hashes, raw_txs, i) ==
    IF i > Len(hashes) THEN acc
    ELSE IF raw_txs[i] = NoneRaw THEN DeserializeFrom(acc, hashes, raw_txs, i + 1)
    ELSE LET tx_hash == hashes[i]
             tx      == raw_txs[i]
             d       == DigestOutputs([acc EXCEPT !.pairs = <<>>], tx_hash, tx.outputs, 0)
             mtx     == MemPoolTx(txin_pairs(tx.inputs), <<>>, d.pairs, 0, tx.size)
         IN DeserializeFrom([d EXCEPT !.order = Append(@, tx_hash),
                                      !.txs = Put(@, tx_hash, mtx)],
                            hashes, raw_txs, i + 1)

deserialize_txs(hashes, raw_txs) ==
    DeserializeFrom([pairs |-> <<>>, creates |-> EmptyMap, reissues |-> EmptyMap,
                     order |-> <<>>, txs |-> EmptyMap],
                    hashes, raw_txs, 1)

(***************************************************************************)
(* The indices of the MemPool object, as one record, and the operations    *)
(* on them.  The fields are the attributes of self, plus the two           *)
(* accumulators touched and assets_touched that _refresh_hashes owns and   *)
(* passes down by reference.                                               *)
(***************************************************************************)
RECURSIVE SumNative(_, _)
\* sum((v if not is_asset else 0) for _, v, is_asset, _ in pairs)
SumNative(pairs, i) ==
    IF i > Len(pairs) THEN 0
    ELSE (IF pairs[i][3] THEN 0 ELSE pairs[i][2]) + SumNative(pairs, i + 1)

\* tx.fee = max(0, sum of native inputs - sum of native outputs)
tx_fee(in_pairs, out_pairs) ==
    Max(0, SumNative(in_pairs, 1) - SumNative(out_pairs, 1))

\* the hashXs of tx.out_pairs alone
chain_hashXs_outputs_only(tx) ==
    {tx.out_pairs[i][1] : i \in 1..Len(tx.out_pairs)}

\* the hashXs of itertools.chain(tx.in_pairs, tx.out_pairs)
chain_hashXs(tx) ==
    {tx.in_pairs[i][1] : i \in 1..Len(tx.in_pairs)}
        \cup {tx.out_pairs[i][1] : i \in 1..Len(tx.out_pairs)}

\* utxo_map.get(prevout), else txs[prev_hash]: False stands for KeyError
CanResolve(txs, utxo_map, prevout) ==
    prevout \in DOMAIN utxo_map \/ prevout[1] \in DOMAIN txs

\* the utxo found for a prevout: out_pairs[prev_index] of the mempool parent
\* when utxo_map has none.  A transaction the daemon accepted names an
\* existing output, and out_pairs never has fewer tuples than outputs.
ResolvePrevout(txs, utxo_map, prevout) ==
    IF prevout \in DOMAIN utxo_map THEN utxo_map[prevout]
    ELSE txs[prevout[1]].out_pairs[prevout[2] + 1]

\* the accepting half of the loop body of _accept_transactions
AcceptTx(S, tx_hash, tx, utxo_map) ==
    LET in_pairs == [i \in 1..Len(tx.prevouts) |->
                        ResolvePrevout(S.txs, utxo_map, tx.prevouts[i])]
        atx      == [tx EXCEPT !.in_pairs = in_pairs,
                               !.fee = tx_fee(in_pairs, tx.out_pairs)]
        hXs      == chain_hashXs(atx)
    IN [S EXCEPT
          !.txs = Put(@, tx_hash, atx),
          !.touched = @ \cup hXs,
          !.hashXs = [hX \in (DOMAIN @) \cup hXs |->
                         IF hX \in hXs THEN Get(@, hX, {}) \cup {tx_hash} ELSE @[hX]],
          !.assets_touched = @ \cup Get(S.tx_to_asset_create, tx_hash, {})
                               \cup Get(S.tx_to_asset_reissue, tx_hash, {})]

\* `for tx_hash, tx in tx_map.items()` of _accept_transactions, from the
\* i-th item on.  acc holds the indices, the deferred dict (with its order)
\* and the unspent set.
RECURSIVE AcceptFrom(_, _, _, _, _)
AcceptFrom(acc, order, tx_map, utxo_map, i) ==
    IF i > Len(order) THEN acc
    ELSE LET tx_hash == order[i]
             tx      == tx_map[tx_hash]
         IN IF \A k \in 1..Len(tx.prevouts) :
                    CanResolve(acc.S.txs, utxo_map, tx.prevouts[k])
            THEN AcceptFrom([acc EXCEPT
                                !.S = AcceptTx(acc.S, tx_hash, tx, utxo_map),
                                !.unspent = @ \ Range(tx.prevouts)],
                            order, tx_map, utxo_map, i + 1)
            ELSE AcceptFrom([acc EXCEPT
                                !.order = Append(@, tx_hash),
                                !.deferred = Put(@, tx_hash, tx)],
                            order, tx_map, utxo_map, i + 1)

\* _accept_transactions(tx_map, utxo_map, touched, assets_touched): the new
\* indices S, the deferred tx_map (order, deferred) and the unspent utxo_map
accept_transactions(S, order, tx_map, utxo_map) ==
    LET r == AcceptFrom([S |-> S, order |-> <<>>, deferred |-> EmptyMap,
                         unspent |-> DOMAIN utxo_map],
                        order, tx_map, utxo_map, 1)
    IN [S |-> r.S, order |-> r.order, deferred |-> r.deferred,
        utxo_map |-> [prevout \in r.unspent |-> utxo_map[prevout]]]

\* the hashXs of tx.out_pairs alone, for the eviction loop
tx_hashXs_outputs_only(tx) ==
    {tx.out_pairs[i][1] : i \in 1..Len(tx.out_pairs)}

\* tx_hashXs of the eviction loop
tx_hashXs(tx) ==
    {tx.in_pairs[i][1] : i \in 1..Len(tx.in_pairs)}
        \cup {tx.out_pairs[i][1] : i \in 1..Len(tx.out_pairs)}

\* The body of `for tx_hash in set(txs).difference(all_hashes)`, up to the
\* update of touched.  By HashXsMatchTxs the set.remove never raises;
\* assets_touched is not written by this loop.
EvictTx(S, tx_hash) ==
    LET tx              == S.txs[tx_hash]
        reissued_assets == Get(S.tx_to_asset_reissue, tx_hash, {})
        created_assets  == Get(S.tx_to_asset_create, tx_hash, {})
        hXs             == tx_hashXs(tx)
        removed         == [hX \in DOMAIN S.hashXs |->
                               IF hX \in hXs THEN S.hashXs[hX] \ {tx_hash}
                               ELSE S.hashXs[hX]]
    IN [S EXCEPT
          !.txs = Del(@, tx_hash),
          !.tx_to_asset_reissue = Del(@, tx_hash),
          !.asset_reissues = DelAll(@, reissued_assets),
          !.tx_to_asset_create = Del(@, tx_hash),
          !.asset_creates = DelAll(@, created_assets),
          !.hashXs = [hX \in {x \in DOMAIN removed : x \notin hXs \/ removed[x] # {}}
                         |-> removed[hX]]]

\* a loop that pops the transactions and leaves touched alone
RECURSIVE EvictAllUntouched(_, _)
EvictAllUntouched(S, gone) ==
    IF gone = {} THEN S
    ELSE LET tx_hash == CHOOSE h \in gone : TRUE
         IN EvictAllUntouched(EvictTx(S, tx_hash), gone \ {tx_hash})

\* the eviction loop of _process_mempool over the set `gone`, each pass
\* ending with touched.update(tx_hashXs)
RECURSIVE EvictAll(_, _)
EvictAll(S, gone) ==
    IF gone = {} THEN S
    ELSE LET tx_hash == CHOOSE h \in gone : TRUE
         IN EvictAll([EvictTx(S, tx_hash) EXCEPT
                         !.touched = @ \cup tx_hashXs(S.txs[tx_hash])],
                     gone \ {tx_hash})

\* the two recording loops of _fetch_and_accept over internal_creates and
\* internal_reissues
RECURSIVE RecordAssets(_, _, _, _)
RecordAssets(forward, reverse, metas, names) ==
    IF names = {} THEN [forward |-> forward, reverse |-> reverse]
    ELSE LET asset  == CHOOSE n \in names : TRUE
             stats  == metas[asset]
             hash_b == hex_str_to_hash(stats.source.tx_hash)
         IN RecordAssets(Put(forward, asset, stats),
                         Put(reverse, hash_b, Get(reverse, hash_b, {}) \cup {asset}),
                         metas, names \ {asset})

record_assets(S, internal_creates, internal_reissues) ==
    LET c == RecordAssets(S.asset_creates, S.tx_to_asset_create,
                          internal_creates, DOMAIN internal_creates)
        r == RecordAssets(S.asset_reissues, S.tx_to_asset_reissue,
                          internal_reissues, DOMAIN internal_reissues)
    IN [S EXCEPT !.asset_creates = c.forward, !.tx_to_asset_create = c.reverse,
                 !.asset_reissues = r.forward, !.tx_to_asset_reissue = r.reverse]

\* the fixed-point loop of _process_mempool:
\* while tx_map and len(tx_map) != prior_count
\* a loop condition that only asks for a non-empty tx_map
LoopContinuesWhileSome(order, count) == order # <<>>

\* while tx_map and len(tx_map) != prior_count
LoopContinues(order, count) == order # <<>> /\ Len(order) # count

RECURSIVE FixedPoint(_, _, _, _, _)
FixedPoint(S, order, tx_map, utxo_map, count) ==
    IF LoopContinues(order, count)
    THEN LET r == accept_transactions(S, order, tx_map, utxo_map)
         IN FixedPoint(r.S, r.order, r.deferred, r.utxo_map, Len(order))
    ELSE [S |-> S, order |-> order, deferred |-> tx_map, utxo_map |-> utxo_map]

\* prevouts = tuple(prevout for tx in tx_map.values() for prevout in
\*                  tx.prevouts if prevout[0] not in all_hashes)
RECURSIVE external_prevouts(_, _, _, _)
external_prevouts(order, tx_map, all_hashes, i) ==
    IF i > Len(order) THEN <<>>
    ELSE LET pv == tx_map[order[i]].prevouts
             RECURSIVE Walk(_)
             Walk(k) == IF k > Len(pv) THEN <<>>
                        ELSE IF pv[k][1] \notin all_hashes
                             THEN <<pv[k]>> \o Walk(k + 1)
                             ELSE Walk(k + 1)
         IN Walk(1) \o external_prevouts(order, tx_map, all_hashes, i + 1)

(***************************************************************************)
(* The DB behind MemPoolAPI.  Each lookup returns a list aligned with the  *)
(* prevouts, with None for a prevout that is spent or not found.           *)
(***************************************************************************)
NoneAnswer == <<>>

lookup_utxos(prevouts, not_found) ==
    [i \in 1..Len(prevouts) |->
        IF prevouts[i] \in not_found THEN NoneAnswer ELSE DbUtxo(prevouts[i])]

lookup_assets(prevouts, not_found) ==
    [i \in 1..Len(prevouts) |->
        IF prevouts[i] \in not_found THEN NoneAnswer ELSE DbAsset(prevouts[i])]

\* `for hX, v in answers` raises TypeError when an element is None
UnpackRaises(answers) == \E i \in 1..Len(answers) : answers[i] = NoneAnswer

\* utxos.append((hX, v, False, None)) for each answer of lookup_utxos
utxo_tuples(answers) ==
    [i \in 1..Len(answers) |-> <<answers[i][1], answers[i][2], FALSE, "None">>]

\* utxos.append((hX, v, True, name)) for each answer of lookup_assets
asset_tuples(answers) ==
    [i \in 1..Len(answers) |-> <<answers[i][1], answers[i][2], TRUE, answers[i][3]>>]

\* utxo_map = {prevout: utxo for prevout, utxo in zip(prevouts, utxos)}:
\* zip stops at the shorter list, a repeated key keeps its last value
zip_utxo_map(prevouts, utxos) ==
    LET n == IF Len(prevouts) <= Len(utxos) THEN Len(prevouts) ELSE Len(utxos)
    IN [prevout \in {prevouts[i] : i \in 1..n} |->
           utxos[CHOOSE i \in 1..n : /\ prevouts[i] = prevout
                                     /\ \A j \in 1..n : prevouts[j] = prevout => j <= i]]

\* _fetch_and_accept(hashes, all_hashes, touched, assets_touched) run from
\* its first line to its return with no other task in between, the daemon
\* serving every raw transaction and the DB answering every prevout
fetch_and_accept(S, chunk, all_hashes) ==
    LET hex_hashes == [k \in 1..Len(chunk) |-> hash_to_hex_str(chunk[k])]
        d          == deserialize_txs(chunk, raw_transactions(hex_hashes, {}))
        S1         == record_assets(S, d.creates, d.reissues)
        prevouts   == external_prevouts(d.order, d.txs, all_hashes, 1)
        utxos      == utxo_tuples(lookup_utxos(prevouts, {}))
                          \o asset_tuples(lookup_assets(prevouts, {}))
    IN accept_transactions(S1, d.order, d.txs, zip_utxo_map(prevouts, utxos))

(***************************************************************************)
(* The external interface: the queries.  Each is a coroutine without an    *)
(* await, so it runs as one step.  hashXs is a defaultdict(set): reading   *)
(* hashXs[k] for a missing k enters k with an empty set, while `k in d`    *)
(* and d.get(k, ()) enter nothing.  Each operator gives the value returned *)
(* and hashXs as the query leaves it.                                      *)
(***************************************************************************)
\* defaultdict.__getitem__: the dict after d[k] was read
getitem_default(d, k) == IF k \in DOMAIN d THEN d ELSE Put(d, k, {})

\* the sum of f[x] over the x of a set
RECURSIVE SumFn(_, _)
SumFn(f, D) ==
    IF D = {} THEN 0
    ELSE LET x == CHOOSE y \in D : TRUE
         IN f[x] + SumFn(f, D \ {x})

\* the elements of a set as a list, in the order the set iterates
RECURSIVE ListOf(_)
ListOf(D) ==
    IF D = {} THEN <<>>
    ELSE LET x == CHOOSE y \in D : TRUE
         IN <<x>> \o ListOf(D \ {x})

\* sum(v for h168, v, is_asset, _ in pairs if h168 == hashX and not is_asset)
RECURSIVE SumNativeOf(_, _, _)
SumNativeOf(pairs, hashX, i) ==
    IF i > Len(pairs) THEN 0
    ELSE (IF pairs[i][1] = hashX /\ ~pairs[i][3] THEN pairs[i][2] ELSE 0)
             + SumNativeOf(pairs, hashX, i + 1)

\* the same sum without the test of is_asset
RECURSIVE SumAllOf(_, _, _)
SumAllOf(pairs, hashX, i) ==
    IF i > Len(pairs) THEN 0
    ELSE (IF pairs[i][1] = hashX THEN pairs[i][2] ELSE 0)
             + SumAllOf(pairs, hashX, i + 1)

\* sum of the quantities of the asset pairs of one hashX and name
RECURSIVE SumAssetOf(_, _, _, _)
SumAssetOf(pairs, hashX, name, i) ==
    IF i > Len(pairs) THEN 0
    ELSE (IF pairs[i][1] = hashX /\ pairs[i][3] /\ pairs[i][4] = name
          THEN pairs[i][2] ELSE 0)
             + SumAssetOf(pairs, hashX, name, i + 1)

\* a balance_delta that reads self.hashXs[hashX] without testing the key
balance_delta_unguarded(S, hashX) ==
    LET members == Get(S.hashXs, hashX, {})
    IN [result |-> SumFn([h \in members |->
                             SumNativeOf(S.txs[h].out_pairs, hashX, 1)
                                 - SumNativeOf(S.txs[h].in_pairs, hashX, 1)], members),
        hashXs |-> getitem_default(S.hashXs, hashX)]

\* a balance_delta that counts the asset pairs too
balance_delta_with_assets(S, hashX) ==
    LET members == Get(S.hashXs, hashX, {})
    IN [result |-> SumFn([h \in members |->
                             SumAllOf(S.txs[h].out_pairs, hashX, 1)
                                 - SumAllOf(S.txs[h].in_pairs, hashX, 1)], members),
        hashXs |-> S.hashXs]

balance_delta(S, hashX) ==
    IF hashX \in DOMAIN S.hashXs
    THEN [result |-> SumFn([h \in S.hashXs[hashX] |->
                               SumNativeOf(S.txs[h].out_pairs, hashX, 1)
                                   - SumNativeOf(S.txs[h].in_pairs, hashX, 1)],
                           S.hashXs[hashX]),
          hashXs |-> S.hashXs]
    ELSE [result |-> 0, hashXs |-> S.hashXs]

asset_balance_delta(S, hashX) ==
    LET members == Get(S.hashXs, hashX, {})
        names   == {p[4] : p \in {q \in UNION {Range(S.txs[h].in_pairs)
                                                  \cup Range(S.txs[h].out_pairs) :
                                               h \in members} :
                                     q[1] = hashX /\ q[3]}}
    IN [result |-> [name \in names |->
                       SumFn([h \in members |->
                                 SumAssetOf(S.txs[h].out_pairs, hashX, name, 1)
                                     - SumAssetOf(S.txs[h].in_pairs, hashX, name, 1)],
                             members)],
        hashXs |-> S.hashXs]

potential_spends(S, hashX) ==
    [result |-> UNION {Range(S.txs[tx_hash].prevouts) :
                          tx_hash \in Get(S.hashXs, hashX, {})},
     hashXs |-> S.hashXs]

MemPoolTxSummary(hash, fee, has_unconfirmed_inputs) ==
    [hash |-> hash, fee |-> fee, has_unconfirmed_inputs |-> has_unconfirmed_inputs]

\* summaries whose has_unconfirmed_inputs says that the tx has a prevout
transaction_summaries_any_prevout(S, hashX) ==
    LET members == ListOf(Get(S.hashXs, hashX, {}))
    IN [result |-> [k \in 1..Len(members) |->
                       MemPoolTxSummary(members[k], S.txs[members[k]].fee,
                                        S.txs[members[k]].prevouts # <<>>)],
        hashXs |-> S.hashXs]

transaction_summaries(S, hashX) ==
    LET members == ListOf(Get(S.hashXs, hashX, {}))
        has_ui(tx) == \E k \in 1..Len(tx.prevouts) : tx.prevouts[k][1] \in DOMAIN S.txs
    IN [result |-> [k \in 1..Len(members) |->
                       MemPoolTxSummary(members[k], S.txs[members[k]].fee,
                                        has_ui(S.txs[members[k]]))],
        hashXs |-> S.hashXs]

\* UTXO(-1, pos, tx_hash, 0, value)
UTXO(tx_num, tx_pos, tx_hash, height, value) ==
    [tx_num |-> tx_num, tx_pos |-> tx_pos, tx_hash |-> tx_hash,
     height |-> height, value |-> value]

\* ASSET(-1, pos, tx_hash, 0, name, value)
ASSET(tx_num, tx_pos, tx_hash, height, name, value) ==
    [tx_num |-> tx_num, tx_pos |-> tx_pos, tx_hash |-> tx_hash,
     height |-> height, name |-> name, value |-> value]

\* the entries of out_pairs that pay to hashX, native or asset, from pos on
RECURSIVE PaysTo(_, _, _, _, _)
PaysTo(tx_hash, out_pairs, hashX, is_asset, pos) ==
    IF pos >= Len(out_pairs) THEN <<>>
    ELSE LET pair == out_pairs[pos + 1]
             rest == PaysTo(tx_hash, out_pairs, hashX, is_asset, pos + 1)
         IN IF pair[1] = hashX /\ pair[3] = is_asset
            THEN (IF is_asset
                  THEN <<ASSET(-1, pos, tx_hash, 0, pair[4], pair[2])>>
                  ELSE <<UTXO(-1, pos, tx_hash, 0, pair[2])>>) \o rest
            ELSE rest

RECURSIVE PaysToAll(_, _, _, _)
PaysToAll(S, members, hashX, is_asset) ==
    IF members = <<>> THEN <<>>
    ELSE PaysTo(Head(members), S.txs[Head(members)].out_pairs, hashX, is_asset, 0)
             \o PaysToAll(S, Tail(members), hashX, is_asset)

unordered_UTXOs(S, hashX) ==
    [result |-> PaysToAll(S, ListOf(Get(S.hashXs, hashX, {})), hashX, FALSE),
     hashXs |-> S.hashXs]

unordered_ASSETs(S, hashX) ==
    [result |-> PaysToAll(S, ListOf(Get(S.hashXs, hashX, {})), hashX, TRUE),
     hashXs |-> S.hashXs]

\* self.asset_creates.get(asset, None)
get_asset_creation_if_any(S, asset) == Get(S.asset_creates, asset, "None")

\* self.asset_reissues.get(asset, None)
get_asset_reissues_if_any(S, asset) == Get(S.asset_reissues, asset, "None")

(***************************************************************************)
(* _compress_histogram.  A histogram maps a fee rate to a size; fee rates  *)
(* are counted in tenths of sat/byte.  bin_size becomes a float as soon as *)
(* it is multiplied by 1.1: it is kept as the fraction num / den.          *)
(***************************************************************************)
\* sorted(histogram.items(), reverse=True)
RECURSIVE SortedItems(_)
SortedItems(h) ==
    IF DOMAIN h = {} THEN <<>>
    ELSE LET top == CHOOSE r \in DOMAIN h : \A q \in DOMAIN h : q <= r
         IN <<(<<top, h[top]>>)>> \o SortedItems([r \in (DOMAIN h) \ {top} |-> h[r]])

\* prev_fee_rate = None
NoRate == -1

\* a first test that does not ask for an accumulated remainder
PreFlushWithoutRemainder(size, acc) ==
    size * acc.den > 2 * acc.num /\ acc.prev_fee_rate # NoRate

\* size > 2 * bin_size and prev_fee_rate is not None and cum_size > 0
PreFlush(size, acc) ==
    size * acc.den > 2 * acc.num /\ acc.prev_fee_rate # NoRate /\ acc.cum_size > 0

\* compact.append((rate, cum_size)); cum_size = 0; bin_size *= 1.1
Emit(acc, rate) ==
    [acc EXCEPT !.compact = Append(@, <<rate, acc.cum_size>>),
                !.cum_size = 0,
                !.num = 11 * @,
                !.den = 10 * @]

\* one pass of the loop over the sorted items
CompressItem(acc, fee_rate, size) ==
    LET a1 == IF PreFlush(size, acc) THEN Emit(acc, acc.prev_fee_rate) ELSE acc
        a2 == [a1 EXCEPT !.cum_size = @ + size]
        a3 == IF a2.cum_size * a2.den > a2.num THEN Emit(a2, fee_rate) ELSE a2
    IN [a3 EXCEPT !.prev_fee_rate = fee_rate]

RECURSIVE CompressFrom(_, _, _)
CompressFrom(acc, items, i) ==
    IF i > Len(items) THEN acc
    ELSE CompressFrom(CompressItem(acc, items[i][1], items[i][2]), items, i + 1)

\* _compress_histogram(histogram, bin_size=bin_size)
compress_histogram(hist, size_of_bin) ==
    CompressFrom([compact |-> <<>>, cum_size |-> 0, num |-> size_of_bin, den |-> 1,
                  prev_fee_rate |-> NoRate],
                 SortedItems(hist), 1).compact

(***************************************************************************)
(* _update_histogram.                                                      *)
(***************************************************************************)
\* a bucket that rounds the fee rate up instead of down
fee_rate_ceiling(tx) == (10 * tx.fee + tx.size - 1) \div tx.size

\* fee_rate = tx.fee / tx.size; fee_rate = math.floor(10 * fee_rate) / 10,
\* in tenths of sat/byte.  tx.size is positive for a transaction that was
\* read from its bytes.
fee_rate_of(tx) == (10 * tx.fee) \div tx.size

\* histogram = defaultdict(int); histogram[fee_rate] += tx.size for every
\* tx of a txs dict
fee_histogram(mempool_txs) ==
    LET rates == {fee_rate_of(mempool_txs[h]) : h \in DOMAIN mempool_txs}
        sizes == [h \in DOMAIN mempool_txs |-> mempool_txs[h].size]
    IN [r \in rates |->
           SumFn(sizes, {h \in DOMAIN mempool_txs : fee_rate_of(mempool_txs[h]) = r})]

\* _update_histogram(bin_size): the value it stores in
\* self.cached_compact_histogram
update_histogram(mempool_txs, size_of_bin) ==
    compress_histogram(fee_histogram(mempool_txs), size_of_bin)

\* the bin_size _refresh_histogram passes to _update_histogram
HistogramBinSize == 100000

(***************************************************************************)
(* The state.                                                              *)
(***************************************************************************)
VARIABLES
    \* the attributes of the MemPool object
    txs, hashXs, asset_creates, tx_to_asset_create, asset_reissues,
    tx_to_asset_reissue, lock,
    \* the locals of _refresh_hashes
    touched, assets_touched, height, hashes,
    \* where _refresh_hashes stands:
    \*   "top"         at `while True`, before mempool_hashes is awaited
    \*   "fetched"     awaiting api.height()
    \*   "gather"      inside _process_mempool, awaiting the chunk tasks
    \*   "on_mempool"  awaiting api.on_mempool(touched, height, assets_touched)
    \*   "sleep"       awaiting sleep(refresh_secs)
    \*   "crashed"     an exception other than DBSyncError left the task
    \* and, where one function is run on its own:
    \*   "compress", "compressed"    before and after _compress_histogram
    \*   "fixed_point", "returned"   in and after the fixed-point loop
    pc,
    \* the _fetch_and_accept tasks of the TaskGroup, and the tx_map and
    \* utxo_map that _process_mempool gathers from their results
    tasks, gathered,
    \* the number of loop passes started
    cycle,
    \* history of the pass under way: the last answer of api.db_height(),
    \* how the pass ended, the calls of on_mempool and of
    \* synchronized_event.set() it made, the hashes it evicted, the hashes
    \* whose raw transaction the daemon returned as None
    db_seen, outcome, calls, signals, evicted, missing,
    \* the prevouts for which lookup_utxos or lookup_assets answered None
    \* during the pass under way
    none_answered,
    \* history of the last pass that called on_mempool: hashXs, the hash set
    \* and the missing raw transactions at that call
    prev_hashXs, prev_hashes, prev_missing,
    \* the attribute the histogram task publishes, and a call of
    \* _compress_histogram: its two arguments and the list it returned
    cached_compact_histogram, histogram, bin_size, compact,
    \* the fixed-point loop of _process_mempool run pass by pass: its local
    \* prior_count, the number of passes made and the size of the tx_map
    \* the loop started with
    prior_count, passes, first_count,
    \* where _refresh_histogram stands:
    \*   "off"     the task was not spawned (_refresh_hashes runs alone)
    \*   "wait"    awaiting synchronized_event.wait()
    \*   "lock"    wait() returned; awaiting the lock of `async with self.lock`
    \*   "thread"  holding the lock, awaiting run_in_thread(_update_histogram)
    \*   "sleep"   awaiting sleep(MEMPOOL_HISTOGRAM_REFRESH_SECS)
    \* and whether, since the histogram was last rebuilt, synchronized_event
    \* was set while the task was sleeping
    hpc, missed

idxVars == <<txs, hashXs, asset_creates, tx_to_asset_create, asset_reissues,
             tx_to_asset_reissue>>

accVars == <<touched, assets_touched>>

prevVars == <<prev_hashXs, prev_hashes, prev_missing>>

vars == <<txs, hashXs, asset_creates, tx_to_asset_create, asset_reissues,
          tx_to_asset_reissue, lock, touched, assets_touched, height, hashes,
          pc, tasks, gathered, cycle, db_seen, outcome, calls, signals,
          evicted, missing, none_answered, prev_hashXs, prev_hashes, prev_missing,
          cached_compact_histogram, histogram, bin_size, compact,
          prior_count, passes, first_count, hpc, missed>>

histVars == <<cached_compact_histogram, histogram, bin_size, compact>>

loopVars == <<prior_count, passes, first_count>>

taskVars == <<hpc, missed>>

\* the indices and accumulators as the record the operators work on
Indices ==
    [txs |-> txs, hashXs |-> hashXs,
     asset_creates |-> asset_creates, tx_to_asset_create |-> tx_to_asset_create,
     asset_reissues |-> asset_reissues, tx_to_asset_reissue |-> tx_to_asset_reissue,
     touched |-> touched, assets_touched |-> assets_touched]

SetIndices(S) ==
    /\ txs' = S.txs
    /\ hashXs' = S.hashXs
    /\ asset_creates' = S.asset_creates
    /\ tx_to_asset_create' = S.tx_to_asset_create
    /\ asset_reissues' = S.asset_reissues
    /\ tx_to_asset_reissue' = S.tx_to_asset_reissue
    /\ touched' = S.touched
    /\ assets_touched' = S.assets_touched

NoGathered == [order |-> <<>>, txs |-> EmptyMap, utxo_map |-> EmptyMap]

\* a spawned _fetch_and_accept(hashes, ...) coroutine
NewTask(chunk) ==
    [hashes |-> chunk, stage |-> "raw", order |-> <<>>, txs |-> EmptyMap,
     prevouts |-> <<>>, utxos |-> <<>>]

DoneTask(chunk) ==
    [hashes |-> chunk, stage |-> "done", order |-> <<>>, txs |-> EmptyMap,
     prevouts |-> <<>>, utxos |-> <<>>]

\* MemPool.__init__, and the first lines of _refresh_hashes
ObjectInit ==
    /\ txs = EmptyMap
    /\ hashXs = EmptyMap
    /\ asset_creates = EmptyMap
    /\ tx_to_asset_create = EmptyMap
    /\ asset_reissues = EmptyMap
    /\ tx_to_asset_reissue = EmptyMap
    /\ lock = "free"
    /\ touched = {}
    /\ assets_touched = {}
    /\ height = 0
    /\ hashes = {}
    /\ tasks = <<>>
    /\ gathered = NoGathered
    /\ cycle = 0
    /\ db_seen = 0
    /\ outcome = "none"
    /\ calls = 0
    /\ signals = 0
    /\ evicted = {}
    /\ missing = {}
    /\ none_answered = {}
    /\ prev_hashXs = EmptyMap
    /\ prev_hashes = {"-"}
    /\ prev_missing = {}
    /\ cached_compact_histogram = <<>>

\* _refresh_histogram is not running
NoTask ==
    /\ hpc = "off"
    /\ missed = FALSE

\* no call of _compress_histogram and no fixed-point loop is under way
Init ==
    /\ ObjectInit
    /\ NoTask
    /\ pc = "top"
    /\ histogram = EmptyMap
    /\ bin_size = 0
    /\ compact = <<>>
    /\ prior_count = 0
    /\ passes = 0
    /\ first_count = 0

(***************************************************************************)
(* _refresh_hashes                                                         *)
(***************************************************************************)
\* height = cached_height(); hex_hashes = await mempool_hashes().  The hex
\* list is converted at once (the code does it after the height check).
RefreshTop ==
    /\ pc = "top"
    /\ cycle < MaxCycles
    /\ \E h \in Heights, hex_hashes \in SUBSET {hash_to_hex_str(x) : x \in Hashes} :
          /\ height' = h
          /\ hashes' = {hex_str_to_hash(hh) : hh \in hex_hashes}
    /\ pc' = "fetched"
    /\ cycle' = cycle + 1
    /\ db_seen' = 0 /\ outcome' = "none" /\ calls' = 0 /\ signals' = 0
    /\ evicted' = {} /\ missing' = {} /\ none_answered' = {}
    /\ UNCHANGED <<idxVars, accVars, prevVars, lock, tasks, gathered>>
    /\ UNCHANGED <<histVars, loopVars, taskVars>>

\* if height != await self.api.height(): continue
HeightSkew ==
    /\ pc = "fetched"
    /\ \E h2 \in Heights : h2 # height
    /\ pc' = "top"
    /\ outcome' = "skew"
    /\ UNCHANGED <<idxVars, accVars, prevVars, lock, height, hashes, tasks,
                   gathered, cycle, db_seen, calls, signals, evicted, missing>>
    /\ UNCHANGED none_answered
    /\ UNCHANGED <<histVars, loopVars, taskVars>>

\* an except branch that publishes as the else branch does
DBSyncErrorPublishes ==
    /\ pc = "fetched"
    /\ lock = "free"
    /\ \E d \in Heights : d # height /\ db_seen' = d
    /\ pc' = "on_mempool"
    /\ outcome' = "dbsync"
    /\ calls' = calls + 1
    /\ signals' = signals + 1
    /\ UNCHANGED <<idxVars, accVars, prevVars, lock, height, hashes, tasks,
                   gathered, cycle, evicted, missing>>
    /\ UNCHANGED none_answered
    /\ UNCHANGED <<histVars, loopVars, taskVars>>

\* a _process_mempool that compares the heights after the eviction loop
DBSyncErrorAfterEviction ==
    /\ pc = "fetched"
    /\ lock = "free"
    /\ \E d \in Heights : d # height /\ db_seen' = d
    /\ SetIndices(EvictAll(Indices, (DOMAIN txs) \ hashes))
    /\ pc' = "sleep"
    /\ outcome' = "dbsync"
    /\ UNCHANGED <<prevVars, lock, height, hashes, tasks,
                   gathered, cycle, calls, signals, evicted, missing>>
    /\ UNCHANGED none_answered
    /\ UNCHANGED <<histVars, loopVars, taskVars>>

\* _process_mempool raises DBSyncError; the except branch logs, and the
\* loop goes to sleep
DBSyncError ==
    /\ pc = "fetched"
    /\ lock = "free"
    /\ \E d \in Heights : d # height /\ db_seen' = d
    /\ pc' = "sleep"
    /\ outcome' = "dbsync"
    /\ UNCHANGED <<idxVars, accVars, prevVars, lock, height, hashes, tasks,
                   gathered, cycle, calls, signals, evicted, missing>>
    /\ UNCHANGED none_answered
    /\ UNCHANGED <<histVars, loopVars, taskVars>>

\* a set() that wakes nobody: what a waiter that polls the level of the
\* event would see, the event being cleared before anything else runs
SetAndClearWakesNobody ==
    /\ hpc' = hpc
    /\ missed' = (missed \/ hpc = "sleep")

\* synchronized_event.set(); synchronized_event.clear(): set() completes
\* the future of every task suspended in wait(), which will return although
\* the event is cleared at once; a task that is elsewhere sees nothing
SetAndClear ==
    /\ hpc' = IF hpc = "wait" THEN "lock" ELSE hpc
    /\ missed' = (missed \/ hpc = "sleep")

\* the else branch of the try: synchronized_event.set(); .clear();
\* await self.api.on_mempool(touched, height, assets_touched)
Publish ==
    /\ outcome' = "ok"
    /\ signals' = signals + 1
    /\ calls' = calls + 1
    /\ pc' = "on_mempool"
    /\ SetAndClear

\* _process_mempool when no hash is new: it evicts and returns without
\* awaiting, and the caller publishes
EvictAndPublish ==
    /\ pc = "fetched"
    /\ lock = "free"
    /\ db_seen' = height
    /\ LET gone == (DOMAIN txs) \ hashes
           S    == EvictAll(Indices, gone)
       IN /\ hashes \ (DOMAIN S.txs) = {}
          /\ SetIndices(S)
          /\ evicted' = gone
    /\ Publish
    /\ UNCHANGED <<prevVars, lock, height, hashes, tasks, gathered, cycle, missing>>
    /\ UNCHANGED none_answered
    /\ UNCHANGED <<histVars, loopVars>>

\* _process_mempool when some hashes are new: it evicts, spawns one
\* _fetch_and_accept per chunk and awaits the group, holding the lock
EvictAndSpawn ==
    /\ pc = "fetched"
    /\ lock = "free"
    /\ db_seen' = height
    /\ LET gone == (DOMAIN txs) \ hashes
           S    == EvictAll(Indices, gone)
       IN /\ hashes \ (DOMAIN S.txs) # {}
          /\ SetIndices(S)
          /\ evicted' = gone
          /\ \E new_hashes \in Perms(hashes \ (DOMAIN S.txs)) :
                LET cs == chunks(new_hashes, ChunkSize)
                IN tasks' = [i \in 1..Len(cs) |-> NewTask(cs[i])]
    /\ gathered' = NoGathered
    /\ lock' = "refresh"
    /\ pc' = "gather"
    /\ UNCHANGED <<prevVars, height, hashes, cycle, outcome, calls, signals, missing>>
    /\ UNCHANGED none_answered
    /\ UNCHANGED <<histVars, loopVars, taskVars>>

(***************************************************************************)
(* _fetch_and_accept, one action per await that returns                    *)
(***************************************************************************)
\* raw_transactions returns; deserialize_txs runs in a thread (it is pure),
\* the asset records are written and lookup_utxos is called
FetchAndDigest(i) ==
    /\ pc = "gather"
    /\ tasks[i].stage = "raw"
    /\ \E gone \in SUBSET Range(tasks[i].hashes) :
          LET hex_hashes == [k \in 1..Len(tasks[i].hashes) |->
                                hash_to_hex_str(tasks[i].hashes[k])]
              raw_txs    == raw_transactions(hex_hashes, gone)
              d          == deserialize_txs(tasks[i].hashes, raw_txs)
              S          == record_assets(Indices, d.creates, d.reissues)
          IN /\ SetIndices(S)
             /\ tasks' = [tasks EXCEPT ![i] =
                    [@ EXCEPT !.stage = "utxos", !.order = d.order, !.txs = d.txs,
                              !.prevouts = external_prevouts(d.order, d.txs, hashes, 1)]]
             /\ missing' = missing \cup gone
    /\ UNCHANGED <<prevVars, lock, height, hashes, pc, gathered, cycle, db_seen,
                   outcome, calls, signals, evicted>>
    /\ UNCHANGED none_answered
    /\ UNCHANGED <<histVars, loopVars, taskVars>>

\* lookup_utxos returns a list without None
LookupUtxos(i) ==
    /\ pc = "gather"
    /\ tasks[i].stage = "utxos"
    /\ LET answers == lookup_utxos(tasks[i].prevouts, {})
       IN tasks' = [tasks EXCEPT ![i] =
              [@ EXCEPT !.stage = "assets", !.utxos = utxo_tuples(answers)]]
    /\ UNCHANGED <<idxVars, accVars, prevVars, lock, height, hashes, pc, gathered,
                   cycle, db_seen, outcome, calls, signals, evicted, missing>>
    /\ UNCHANGED none_answered
    /\ UNCHANGED <<histVars, loopVars, taskVars>>

\* lookup_assets returns a list without None; utxo_map is built and
\* _accept_transactions called; the group hands the result to
\* _process_mempool, which updates its tx_map and utxo_map
LookupAssetsAndAccept(i) ==
    /\ pc = "gather"
    /\ tasks[i].stage = "assets"
    /\ LET answers  == lookup_assets(tasks[i].prevouts, {})
           utxos    == tasks[i].utxos \o asset_tuples(answers)
           utxo_map == zip_utxo_map(tasks[i].prevouts, utxos)
           r        == accept_transactions(Indices, tasks[i].order, tasks[i].txs, utxo_map)
       IN /\ SetIndices(r.S)
          /\ gathered' = [order    |-> gathered.order \o r.order,
                          txs      |-> Update(gathered.txs, r.deferred),
                          utxo_map |-> Update(gathered.utxo_map, r.utxo_map)]
    /\ tasks' = [tasks EXCEPT ![i] = DoneTask(@.hashes)]
    /\ UNCHANGED <<prevVars, lock, height, hashes, pc, cycle, db_seen, outcome,
                   calls, signals, evicted, missing>>
    /\ UNCHANGED none_answered
    /\ UNCHANGED <<histVars, loopVars, taskVars>>

\* A lookup answers None for some prevout: unpacking it raises TypeError,
\* which leaves _fetch_and_accept, _process_mempool (releasing the lock)
\* and _refresh_hashes.
LookupTypeError(i) ==
    /\ pc = "gather"
    /\ \/ /\ tasks[i].stage = "utxos"
          /\ \E not_found \in SUBSET Range(tasks[i].prevouts) :
                /\ UnpackRaises(lookup_utxos(tasks[i].prevouts, not_found))
                /\ none_answered' = none_answered \cup not_found
       \/ /\ tasks[i].stage = "assets"
          /\ \E not_found \in SUBSET Range(tasks[i].prevouts) :
                /\ UnpackRaises(lookup_assets(tasks[i].prevouts, not_found))
                /\ none_answered' = none_answered \cup not_found
    /\ pc' = "crashed"
    /\ lock' = "free"
    /\ UNCHANGED <<idxVars, accVars, prevVars, height, hashes, tasks, gathered,
                   cycle, db_seen, outcome, calls, signals, evicted, missing>>
    /\ UNCHANGED <<histVars, loopVars, taskVars>>

(***************************************************************************)
(* The end of _process_mempool and of the loop pass                        *)
(***************************************************************************)
\* every task has finished: the fixed-point loop runs, _process_mempool
\* returns, the lock is released and the caller publishes
FinishAndPublish ==
    /\ pc = "gather"
    /\ \A i \in 1..Len(tasks) : tasks[i].stage = "done"
    /\ LET r == FixedPoint(Indices, gathered.order, gathered.txs, gathered.utxo_map, 0)
       IN SetIndices(r.S)
    /\ tasks' = <<>>
    /\ gathered' = NoGathered
    /\ lock' = "free"
    /\ Publish
    /\ UNCHANGED <<prevVars, height, hashes, cycle, db_seen, evicted, missing>>
    /\ UNCHANGED none_answered
    /\ UNCHANGED <<histVars, loopVars>>

\* on_mempool returns: touched = set(); assets_touched = set()
OnMempoolReturn ==
    /\ pc = "on_mempool"
    /\ touched' = {}
    /\ assets_touched' = {}
    /\ pc' = "sleep"
    /\ prev_hashXs' = hashXs
    /\ prev_hashes' = hashes
    /\ prev_missing' = missing
    /\ UNCHANGED <<idxVars, lock, height, hashes, tasks, gathered, cycle, db_seen,
                   outcome, calls, signals, evicted, missing>>
    /\ UNCHANGED none_answered
    /\ UNCHANGED <<histVars, loopVars, taskVars>>

\* sleep(self.refresh_secs) returns
Wake ==
    /\ pc = "sleep"
    /\ pc' = "top"
    /\ UNCHANGED <<idxVars, accVars, prevVars, lock, height, hashes, tasks,
                   gathered, cycle, db_seen, outcome, calls, signals, evicted, missing>>
    /\ UNCHANGED none_answered
    /\ UNCHANGED <<histVars, loopVars, taskVars>>

Next ==
    \/ RefreshTop
    \/ HeightSkew
    \/ DBSyncError
    \/ EvictAndPublish
    \/ EvictAndSpawn
    \/ \E i \in 1..Len(tasks) : FetchAndDigest(i)
    \/ \E i \in 1..Len(tasks) : LookupUtxos(i)
    \/ \E i \in 1..Len(tasks) : LookupAssetsAndAccept(i)
    \/ \E i \in 1..Len(tasks) : LookupTypeError(i)
    \/ FinishAndPublish
    \/ OnMempoolReturn
    \/ Wake

Spec == Init /\ [][Next]_vars

(***************************************************************************)
(* The queries of the external interface, served between any two steps of  *)
(* the reconciler.                                                         *)
(***************************************************************************)
\* the hashXs a client asks about: those of the catalogue and one that no
\* transaction names
QueryKeys == HashXs \cup {"s9"}

\* a query returns: hashXs is what the query left, nothing else is written
Answer(r) ==
    /\ hashXs' = r.hashXs
    /\ UNCHANGED <<txs, asset_creates, tx_to_asset_create, asset_reissues,
                   tx_to_asset_reissue, lock, accVars, height, hashes, pc, tasks,
                   gathered, cycle, db_seen, outcome, calls, signals, evicted,
                   missing, none_answered, prevVars, histVars, loopVars, taskVars>>

BalanceDelta == \E hashX \in QueryKeys : Answer(balance_delta(Indices, hashX))

AssetBalanceDelta == \E hashX \in QueryKeys : Answer(asset_balance_delta(Indices, hashX))

PotentialSpends == \E hashX \in QueryKeys : Answer(potential_spends(Indices, hashX))

TransactionSummaries ==
    \E hashX \in QueryKeys : Answer(transaction_summaries(Indices, hashX))

UnorderedUTXOs == \E hashX \in QueryKeys : Answer(unordered_UTXOs(Indices, hashX))

UnorderedASSETs == \E hashX \in QueryKeys : Answer(unordered_ASSETs(Indices, hashX))

\* return self.cached_compact_histogram
CompactFeeHistogram ==
    /\ cached_compact_histogram' = cached_compact_histogram
    /\ UNCHANGED <<idxVars, lock, accVars, height, hashes, pc, tasks, gathered,
                   cycle, db_seen, outcome, calls, signals, evicted, missing,
                   none_answered, prevVars, histogram, bin_size, compact, loopVars,
                   taskVars>>

\* return self.asset_creates.get(asset, None)
GetAssetCreationIfAny ==
    \E asset \in AssetNames :
        LET result == get_asset_creation_if_any(Indices, asset)
        IN UNCHANGED vars

\* return self.asset_reissues.get(asset, None)
GetAssetReissuesIfAny ==
    \E asset \in AssetNames :
        LET result == get_asset_reissues_if_any(Indices, asset)
        IN UNCHANGED vars

Query ==
    \/ BalanceDelta
    \/ AssetBalanceDelta
    \/ PotentialSpends
    \/ TransactionSummaries
    \/ UnorderedUTXOs
    \/ UnorderedASSETs
    \/ CompactFeeHistogram
    \/ GetAssetCreationIfAny
    \/ GetAssetReissuesIfAny

QueryNext == Next \/ Query

QuerySpec == Init /\ [][QueryNext]_vars

(***************************************************************************)
(* _compress_histogram on its own, called on every histogram and bin_size  *)
(* of the bounds.                                                          *)
(***************************************************************************)
CompressInit ==
    /\ ObjectInit
    /\ NoTask
    /\ pc = "compress"
    /\ \E rates \in SUBSET (1..MaxRate) : histogram \in [rates -> 1..MaxSize]
    /\ bin_size \in 1..MaxBinSize
    /\ compact = <<>>
    /\ prior_count = 0
    /\ passes = 0
    /\ first_count = 0

Compress ==
    /\ pc = "compress"
    /\ compact' = compress_histogram(histogram, bin_size)
    /\ pc' = "compressed"
    /\ UNCHANGED <<idxVars, lock, accVars, height, hashes, tasks, gathered, cycle,
                   db_seen, outcome, calls, signals, evicted, missing, none_answered,
                   prevVars, cached_compact_histogram, histogram, bin_size, loopVars,
                   taskVars>>

CompressSpec == CompressInit /\ [][Compress]_vars

(***************************************************************************)
(* The fixed-point loop of _process_mempool on its own, one pass per step, *)
(* started on every tx_map made of up to three transactions that spend the *)
(* DB prevout X:0 or an output of one another, in every order, with and    *)
(* without X:0 in utxo_map.                                                *)
(***************************************************************************)
\* the hashX each of the three transactions pays to
PaysHashX(h) == CASE h = "A" -> "s1" [] h = "B" -> "s2" [] OTHER -> "s3"

\* a digested transaction with one native output
ChainTx(h, prevouts) ==
    MemPoolTx(prevouts, <<>>, <<(<<PaysHashX(h), 1, FALSE, "None">>)>>, 0, 1)

PrevoutChoices ==
    {<<>>, <<(<<"X", 0>>)>>}
        \cup {<<(<<h, 0>>)>> : h \in Hashes}
        \cup {<<(<<"X", 0>>), (<<h, 0>>)>> : h \in Hashes}

FixedPointInit ==
    /\ txs = EmptyMap
    /\ hashXs = EmptyMap
    /\ asset_creates = EmptyMap
    /\ tx_to_asset_create = EmptyMap
    /\ asset_reissues = EmptyMap
    /\ tx_to_asset_reissue = EmptyMap
    /\ cached_compact_histogram = <<>>
    /\ lock = "refresh"
    /\ touched = {}
    /\ assets_touched = {}
    /\ height = 1
    /\ pc = "fixed_point"
    /\ tasks = <<>>
    /\ \E D \in SUBSET Hashes :
          /\ hashes = D
          /\ \E order \in Perms(D), prevouts \in [D -> PrevoutChoices],
                utxo_map \in {EmptyMap, [p \in {<<"X", 0>>} |-> <<"s0", 20, FALSE, "None">>]} :
                /\ gathered = [order    |-> order,
                               txs      |-> [h \in D |-> ChainTx(h, prevouts[h])],
                               utxo_map |-> utxo_map]
                /\ first_count = Len(order)
    /\ prior_count = 0
    /\ passes = 0
    /\ cycle = 1
    /\ db_seen = 1
    /\ outcome = "none"
    /\ calls = 0
    /\ signals = 0
    /\ evicted = {}
    /\ missing = {}
    /\ none_answered = {}
    /\ prev_hashXs = EmptyMap
    /\ prev_hashes = {"-"}
    /\ prev_missing = {}
    /\ histogram = EmptyMap
    /\ bin_size = 0
    /\ compact = <<>>
    /\ NoTask

\* one pass of the loop: prior_count = len(tx_map); tx_map, utxo_map =
\* self._accept_transactions(tx_map, utxo_map, touched, assets_touched)
FixedPointPass ==
    /\ pc = "fixed_point"
    /\ LoopContinues(gathered.order, prior_count)
    /\ prior_count' = Len(gathered.order)
    /\ LET r == accept_transactions(Indices, gathered.order, gathered.txs,
                                    gathered.utxo_map)
       IN /\ SetIndices(r.S)
          /\ gathered' = [order |-> r.order, txs |-> r.deferred, utxo_map |-> r.utxo_map]
    /\ passes' = passes + 1
    /\ UNCHANGED <<lock, height, hashes, pc, tasks, cycle, db_seen, outcome, calls,
                   signals, evicted, missing, none_answered, prevVars, histVars,
                   first_count, taskVars>>

\* the loop condition is false: the residue is logged and
\* _process_mempool returns
FixedPointReturn ==
    /\ pc = "fixed_point"
    /\ ~LoopContinues(gathered.order, prior_count)
    /\ pc' = "returned"
    /\ UNCHANGED <<idxVars, accVars, lock, height, hashes, tasks, gathered, cycle,
                   db_seen, outcome, calls, signals, evicted, missing, none_answered,
                   prevVars, histVars, loopVars, taskVars>>

FixedPointNext == FixedPointPass \/ FixedPointReturn

FixedPointSpec == FixedPointInit /\ [][FixedPointNext]_vars

(***************************************************************************)
(* _refresh_histogram, the task keep_synchronized spawns next to           *)
(* _refresh_hashes.                                                        *)
(***************************************************************************)
\* keep_synchronized re-raises the exception that ended _refresh_hashes and
\* leaves its TaskGroup, which cancels the other tasks
Cancelled == pc = "crashed"

\* an entry into the critical section that does not wait for the lock
HistogramAcquireUnlocked ==
    /\ hpc = "lock"
    /\ ~Cancelled
    /\ lock' = "histogram"
    /\ hpc' = "thread"
    /\ UNCHANGED <<idxVars, accVars, prevVars, height, hashes, pc, tasks, gathered,
                   cycle, db_seen, outcome, calls, signals, evicted, missing,
                   none_answered, histVars, loopVars, missed>>

\* async with self.lock: the lock is acquired and _update_histogram is
\* handed to a thread
HistogramAcquire ==
    /\ hpc = "lock"
    /\ ~Cancelled
    /\ lock = "free"
    /\ lock' = "histogram"
    /\ hpc' = "thread"
    /\ UNCHANGED <<idxVars, accVars, prevVars, height, hashes, pc, tasks, gathered,
                   cycle, db_seen, outcome, calls, signals, evicted, missing,
                   none_answered, histVars, loopVars, missed>>

\* the thread returns: _update_histogram(100_000) has read self.txs and
\* stored the compact histogram; the lock is released and the task sleeps
HistogramUpdate ==
    /\ hpc = "thread"
    /\ ~Cancelled
    /\ histogram' = fee_histogram(txs)
    /\ bin_size' = HistogramBinSize
    /\ compact' = update_histogram(txs, HistogramBinSize)
    /\ cached_compact_histogram' = compact'
    /\ lock' = "free"
    /\ hpc' = "sleep"
    /\ missed' = FALSE
    /\ UNCHANGED <<idxVars, accVars, prevVars, height, hashes, pc, tasks, gathered,
                   cycle, db_seen, outcome, calls, signals, evicted, missing,
                   none_answered, loopVars>>

\* sleep(self.coin.MEMPOOL_HISTOGRAM_REFRESH_SECS) returns, and the task
\* is back at synchronized_event.wait()
HistogramWake ==
    /\ hpc = "sleep"
    /\ ~Cancelled
    /\ hpc' = "wait"
    /\ UNCHANGED <<idxVars, accVars, prevVars, lock, height, hashes, pc, tasks,
                   gathered, cycle, db_seen, outcome, calls, signals, evicted,
                   missing, none_answered, histVars, loopVars, missed>>

\* keep_synchronized has spawned both tasks; the event is clear
TaskInit ==
    /\ ObjectInit
    /\ hpc = "wait"
    /\ missed = FALSE
    /\ pc = "top"
    /\ histogram = EmptyMap
    /\ bin_size = 0
    /\ compact = <<>>
    /\ prior_count = 0
    /\ passes = 0
    /\ first_count = 0

TaskNext ==
    \/ Next
    \/ HistogramAcquire
    \/ HistogramUpdate
    \/ HistogramWake

TaskSpec == TaskInit /\ [][TaskNext]_vars

(***************************************************************************)
(* The two tasks running forever.  The daemon reports an empty mempool or  *)
(* transaction A alone, and the pass counter stops at MaxCycles.           *)
(***************************************************************************)
RefreshTopForever ==
    /\ pc = "top"
    /\ \E h \in Heights, hex_hashes \in SUBSET {hash_to_hex_str("A")} :
          /\ height' = h
          /\ hashes' = {hex_str_to_hash(hh) : hh \in hex_hashes}
    /\ pc' = "fetched"
    /\ cycle' = IF cycle < MaxCycles THEN cycle + 1 ELSE cycle
    /\ db_seen' = 0 /\ outcome' = "none" /\ calls' = 0 /\ signals' = 0
    /\ evicted' = {} /\ missing' = {} /\ none_answered' = {}
    /\ UNCHANGED <<idxVars, accVars, prevVars, lock, tasks, gathered>>
    /\ UNCHANGED <<histVars, loopVars, taskVars>>

ForeverNext ==
    \/ RefreshTopForever
    \/ HeightSkew
    \/ DBSyncError
    \/ EvictAndPublish
    \/ EvictAndSpawn
    \/ \E i \in 1..Len(tasks) : FetchAndDigest(i)
    \/ \E i \in 1..Len(tasks) : LookupUtxos(i)
    \/ \E i \in 1..Len(tasks) : LookupAssetsAndAccept(i)
    \/ \E i \in 1..Len(tasks) : LookupTypeError(i)
    \/ FinishAndPublish
    \/ OnMempoolReturn
    \/ Wake
    \/ HistogramAcquire
    \/ HistogramUpdate
    \/ HistogramWake

\* asyncio.Lock hands the lock to its waiters in turn, so a task that asks
\* for a lock that is released again and again gets it; a thread that was
\* started returns, and a sleep ends
ForeverSpec ==
    /\ TaskInit
    /\ [][ForeverNext]_vars
    /\ SF_vars(HistogramAcquire)
    /\ WF_vars(HistogramUpdate)
    /\ WF_vars(HistogramWake)

(***************************************************************************)
(* _update_histogram on its own, called on every mempool of one or two     *)
(* accepted transactions of the bounds and with every bin_size.            *)
(***************************************************************************)
\* the largest fee of a transaction
MaxFee == 8

\* the (fee, size) of a transaction; (1000, 250) is the documented example
FeesAndSizes == ((0..MaxFee) \X (1..MaxSize)) \cup {<<1000, 250>>}

\* a transaction as _accept_transactions left it, with that fee and size
FeeTx(fs) == MemPoolTx(<<>>, <<>>, <<>>, fs[1], fs[2])

UpdateInit ==
    /\ \E D \in {{"A"}, {"A", "B"}} :
          /\ hashes = D
          /\ \E fs \in [D -> FeesAndSizes] : txs = [h \in D |-> FeeTx(fs[h])]
    /\ bin_size \in (1..MaxBinSize) \cup {100}
    /\ hashXs = EmptyMap
    /\ asset_creates = EmptyMap
    /\ tx_to_asset_create = EmptyMap
    /\ asset_reissues = EmptyMap
    /\ tx_to_asset_reissue = EmptyMap
    /\ cached_compact_histogram = <<>>
    /\ lock = "histogram"
    /\ touched = {}
    /\ assets_touched = {}
    /\ height = 1
    /\ pc = "update"
    /\ tasks = <<>>
    /\ gathered = NoGathered
    /\ cycle = 1
    /\ db_seen = 1
    /\ outcome = "ok"
    /\ calls = 1
    /\ signals = 1
    /\ evicted = {}
    /\ missing = {}
    /\ none_answered = {}
    /\ prev_hashXs = EmptyMap
    /\ prev_hashes = hashes
    /\ prev_missing = {}
    /\ histogram = EmptyMap
    /\ compact = <<>>
    /\ prior_count = 0
    /\ passes = 0
    /\ first_count = 0
    /\ NoTask

\* _update_histogram(bin_size)
UpdateHistogram ==
    /\ pc = "update"
    /\ histogram' = fee_histogram(txs)
    /\ compact' = update_histogram(txs, bin_size)
    /\ cached_compact_histogram' = compact'
    /\ pc' = "updated"
    /\ UNCHANGED <<idxVars, accVars, prevVars, lock, height, hashes, tasks, gathered,
                   cycle, db_seen, outcome, calls, signals, evicted, missing,
                   none_answered, bin_size, loopVars, taskVars>>

UpdateSpec == UpdateInit /\ [][UpdateHistogram]_vars

(***************************************************************************)
(* Properties                                                              *)
(***************************************************************************)
\* the hashXs named by the in_pairs and out_pairs of a transaction of txs
PairHashXs(tx) == {p[1] : p \in Range(tx.in_pairs) \cup Range(tx.out_pairs)}

\* C1: in every state, a tx hash h is in hashXs[sh] if and only if h is a
\* key of txs and some in_pair or out_pair of txs[h] has hashX sh.
HashXsMatchTxs ==
    \A sh \in HashXs, h \in Hashes :
        (sh \in DOMAIN hashXs /\ h \in hashXs[sh])
            <=> (h \in DOMAIN txs /\ sh \in PairHashXs(txs[h]))

\* a pass that evicted a transaction has ended while A, indexed under the
\* hashX of its input and of its outputs, stays
HashXsMatchTxsWitness ==
    /\ pc = "on_mempool"
    /\ evicted # {}
    /\ "A" \in DOMAIN txs
    /\ "s0" \in DOMAIN hashXs /\ "A" \in hashXs["s0"]
    /\ "s1" \in DOMAIN hashXs /\ "A" \in hashXs["s1"]

\* C2: at every call of on_mempool, touched holds every hashX whose set in
\* hashXs differs from what it was at the previous call (empty at start).
TouchedCoversChanges ==
    pc = "on_mempool" =>
        \A sh \in HashXs :
            Get(hashXs, sh, {}) # Get(prev_hashXs, sh, {}) => sh \in touched

\* a call of on_mempool after a pass that evicted the last transaction of
\* one hashX and accepted the first transaction of another
TouchedCoversChangesWitness ==
    /\ pc = "on_mempool"
    /\ \E sh \in DOMAIN prev_hashXs : sh \notin DOMAIN hashXs
    /\ \E sh \in DOMAIN hashXs : sh \notin DOMAIN prev_hashXs

\* C3: a pass calls on_mempool exactly once if _process_mempool returned
\* normally and never if it ended in a height skew or in DBSyncError, and
\* touched and assets_touched are emptied only right after such a call.
CallsMatchOutcome ==
    /\ outcome = "ok" => calls = 1
    /\ outcome \in {"none", "skew", "dbsync"} => calls = 0

OnMempoolOncePerSuccess ==
    /\ []CallsMatchOutcome
    /\ [][(\/ touched # {} /\ touched' = {}
           \/ assets_touched # {} /\ assets_touched' = {})
            => (pc = "on_mempool" /\ outcome = "ok" /\ calls = 1)]_vars

\* a successful pass has published and emptied its accumulators, after a
\* pass that ended in DBSyncError or a height skew
OnMempoolOncePerSuccessWitness ==
    /\ pc = "sleep"
    /\ outcome = "ok"
    /\ calls = 1
    /\ touched = {}
    /\ DOMAIN txs # {}
    /\ cycle >= 2
    /\ prev_hashes = hashes

\* C4: a _process_mempool whose mempool_height differs from db_height()
\* leaves the six indices and the two accumulators as they were; the pass
\* sets no signal, calls no on_mempool, sleeps and starts over.
DBSyncErrorChangesNothing ==
    /\ [][(pc = "fetched" /\ db_seen' \in Heights /\ db_seen' # height)
            => /\ UNCHANGED <<idxVars, accVars>>
               /\ pc' = "sleep"
               /\ calls' = calls
               /\ signals' = signals]_vars
    /\ [][(pc = "sleep" /\ outcome = "dbsync")
            => (pc' = "top" /\ UNCHANGED <<idxVars, accVars, calls, signals>>)]_vars

\* a pass ended in DBSyncError although the daemon had dropped a
\* transaction of txs, which is still there
DBSyncErrorChangesNothingWitness ==
    /\ pc = "sleep"
    /\ outcome = "dbsync"
    /\ db_seen # height
    /\ (DOMAIN txs) \ hashes # {}
    /\ calls = 0
    /\ signals = 0

\* C5: from the end of the eviction loop to the normal return of
\* _process_mempool(H), every key of txs is in H and every evicted hash is
\* absent from txs, from every set of hashXs and from the keys of
\* tx_to_asset_create and tx_to_asset_reissue; so the removals are done
\* before any new transaction is fetched or accepted.
EvictionsPrecedeIngestion ==
    pc \in {"gather", "on_mempool"} =>
        /\ DOMAIN txs \subseteq hashes
        /\ \A h \in evicted :
              /\ h \notin hashes
              /\ h \notin DOMAIN txs
              /\ \A sh \in DOMAIN hashXs : h \notin hashXs[sh]
              /\ h \notin DOMAIN tx_to_asset_create
              /\ h \notin DOMAIN tx_to_asset_reissue

\* _process_mempool has evicted a transaction that had an asset record and
\* has not fetched any new transaction yet
EvictionsPrecedeIngestionWitness ==
    /\ pc = "gather"
    /\ \A i \in 1..Len(tasks) : tasks[i].stage = "raw"
    /\ "C" \in evicted
    /\ DOMAIN txs # {}

\* the tx hash an asset record names as its source
SourceOf(stats) == hex_str_to_hash(stats.source.tx_hash)

\* C6: at the end of every successful pass, every record of asset_creates
\* and of asset_reissues has a source tx_hash that is a key of txs.
AssetRecordsHaveAcceptedSource ==
    pc = "on_mempool" =>
        /\ \A n \in DOMAIN asset_creates : SourceOf(asset_creates[n]) \in DOMAIN txs
        /\ \A n \in DOMAIN asset_reissues : SourceOf(asset_reissues[n]) \in DOMAIN txs

\* the asset names a transaction of the catalogue creates, and reissues
CreatedBy(h) ==
    {RawCatalogue[h].outputs[i].name :
        i \in {k \in 1..Len(RawCatalogue[h].outputs) :
                  RawCatalogue[h].outputs[k].kind \in {"q", "o"}}}

ReissuedBy(h) ==
    {RawCatalogue[h].outputs[i].name :
        i \in {k \in 1..Len(RawCatalogue[h].outputs) :
                  RawCatalogue[h].outputs[k].kind = "r"}}

\* the transactions accepted since the previous call of on_mempool
NewlyAccepted ==
    {h \in DOMAIN txs : \A sh \in DOMAIN prev_hashXs : h \notin prev_hashXs[sh]}

\* C7: a name a transaction reissued (created) is in asset_reissues
\* (asset_creates) at the end of the pass that accepted the transaction,
\* and at the end of the pass that evicted it the name is absent and is in
\* the assets set passed to on_mempool.
EvictedAssetsArePublished ==
    pc = "on_mempool" =>
        /\ \A h \in NewlyAccepted :
              /\ ReissuedBy(h) \subseteq DOMAIN asset_reissues
              /\ CreatedBy(h) \subseteq DOMAIN asset_creates
        /\ \A h \in evicted :
              /\ ReissuedBy(h) \cap DOMAIN asset_reissues = {}
              /\ CreatedBy(h) \cap DOMAIN asset_creates = {}
              /\ ReissuedBy(h) \cup CreatedBy(h) \subseteq assets_touched

\* the six indices of a record of indices
SixIndices(S) ==
    <<S.txs, S.hashXs, S.asset_creates, S.asset_reissues,
      S.tx_to_asset_create, S.tx_to_asset_reissue>>

\* C8: between two passes, digesting and accepting a new transaction t and
\* evicting it at once gives back the six indices as they were.
AcceptThenEvictRestores ==
    pc \in {"top", "sleep"} =>
        \A t \in Hashes \ DOMAIN txs :
            LET r == fetch_and_accept(Indices, <<t>>, (DOMAIN txs) \cup {t})
            IN t \in DOMAIN r.S.txs =>
                   SixIndices(EvictTx(r.S, t)) = SixIndices(Indices)

\* C9: when two successive successful passes saw the same hash set and the
\* same raw transactions, the second passes an empty touched to on_mempool.
UnchangedMempoolTouchesNothing ==
    (pc = "on_mempool" /\ prev_hashes = hashes /\ prev_missing = missing)
        => touched = {}

\* the native value of a tuple of pairs, summed from its last pair
RECURSIVE NativeValue(_)
NativeValue(pairs) ==
    IF pairs = <<>> THEN 0
    ELSE LET last == pairs[Len(pairs)]
         IN NativeValue(SubSeq(pairs, 1, Len(pairs) - 1))
                + (IF last[3] THEN 0 ELSE last[2])

\* the transactions of the catalogue whose every input is generation-like
OnlyGeneration(h) ==
    \A i \in 1..Len(RawCatalogue[h].inputs) : RawCatalogue[h].inputs[i].gen

\* the native value the outputs of a transaction of the catalogue carry:
\* txout.value of every output that is not a parsed asset output
RECURSIVE RawNativeOut(_, _)
RawNativeOut(outputs, i) ==
    IF i > Len(outputs) THEN 0
    ELSE (IF outputs[i].kind \in {"o", "q", "r", "t"} THEN 0 ELSE outputs[i].value)
             + RawNativeOut(outputs, i + 1)

\* every tx of txs has the clamped difference of its native pairs as fee; a
\* tx whose only input is generation-like has no prevouts and fee 0, and is
\* accepted by the first _accept_transactions that sees it, never deferred
FeeIsClampedNativeDifference ==
    /\ \A h \in DOMAIN txs :
          /\ txs[h].fee =
                Max(0, NativeValue(txs[h].in_pairs) - NativeValue(txs[h].out_pairs))
          /\ txs[h].fee >= 0
          /\ OnlyGeneration(h) => (txs[h].prevouts = <<>> /\ txs[h].fee = 0)
    /\ \A h \in DOMAIN gathered.txs : ~OnlyGeneration(h)
    /\ \A i \in 1..Len(tasks) :
          tasks[i].stage = "done" =>
              \A h \in Range(tasks[i].hashes) \ missing :
                  OnlyGeneration(h) => h \in DOMAIN txs

\* C10: every tx of txs has fee = max(0, native inputs - native outputs),
\* so never a negative fee, and no asset quantity contributes to it: the fee
\* is the clamped difference of the native inputs and of the native values
\* of the outputs; a tx whose only input is generation-like has no prevouts
\* and fee 0, and is never deferred.
FeeExcludesAssetQuantities ==
    /\ FeeIsClampedNativeDifference
    /\ \A h \in DOMAIN txs :
          txs[h].fee =
              Max(0, NativeValue(txs[h].in_pairs) - RawNativeOut(RawCatalogue[h].outputs, 1))

(***************************************************************************)
(* The digester and the prevout resolver                                   *)
(***************************************************************************)
\* every digested transaction at hand, as <<tx_hash, MemPoolTx>>: those the
\* tasks hold, those _process_mempool gathered as deferred, and those of txs
Digested ==
    {<<h, txs[h]>> : h \in DOMAIN txs}
        \cup {<<h, gathered.txs[h]>> : h \in DOMAIN gathered.txs}
        \cup UNION {{<<h, tasks[i].txs[h]>> : h \in DOMAIN tasks[i].txs} :
                       i \in 1..Len(tasks)}

\* the payload shapes the parser reads to the end
ParsedKinds == {"o", "q", "r", "t"}

\* C11: out_pairs of every digested transaction has exactly one entry per
\* output of the transaction, in output order: entry i carries the hashX
\* of output i, and the name of its asset when it is an asset entry.
OnePairPerOutput ==
    \A d \in Digested :
        LET outputs   == RawCatalogue[d[1]].outputs
            out_pairs == d[2].out_pairs
        IN /\ Len(out_pairs) = Len(outputs)
           /\ \A i \in 1..Len(outputs) :
                 i <= Len(out_pairs) =>
                     /\ out_pairs[i][1] = outputs[i].sh
                     /\ out_pairs[i][3] => out_pairs[i][4] = outputs[i].name

\* C12: an output whose asset payload fails to parse is recorded as
\* (hashX, the native value of the output, False, None): that pair is in
\* out_pairs, every native pair of out_pairs is the pair of an output that
\* is plain or failed to parse, and neither asset_creates nor
\* asset_reissues has a record whose source is that output.
FailedParseDegradesToNative ==
    \A d \in Digested :
        LET outputs   == RawCatalogue[d[1]].outputs
            out_pairs == d[2].out_pairs
            native(o) == <<o.sh, o.value, FALSE, "None">>
            src(i)    == [tx_hash |-> hash_to_hex_str(d[1]), tx_pos |-> i - 1, height |-> -1]
        IN /\ \A i \in 1..Len(outputs) :
                 outputs[i].kind \notin ParsedKinds \cup {"plain"} =>
                     /\ native(outputs[i]) \in Range(out_pairs)
                     /\ \A n \in DOMAIN asset_creates : asset_creates[n].source # src(i)
                     /\ \A n \in DOMAIN asset_reissues : asset_reissues[n].source # src(i)
           /\ \A k \in 1..Len(out_pairs) :
                 ~out_pairs[k][3] =>
                     \E i \in 1..Len(outputs) :
                         /\ outputs[i].kind \notin ParsedKinds
                         /\ out_pairs[k] = native(outputs[i])

\* the prevouts of a transaction of the catalogue
PrevoutsOf(h) == txin_pairs(RawCatalogue[h].inputs)

\* the DB was asked for the prevout during the pass and returned a value
DbReturned(prevout) == prevout[1] \notin hashes /\ prevout \notin none_answered

\* C17: at the end of _process_mempool, a new transaction whose raw bytes
\* were served is left out of txs only if one of its prevouts is neither an
\* output of a tx of txs nor a prevout for which the DB returned a value.
DroppedOnlyWithoutParent ==
    pc = "on_mempool" =>
        \A h \in (hashes \ DOMAIN txs) \ missing :
            \E k \in 1..Len(PrevoutsOf(h)) :
                /\ PrevoutsOf(h)[k][1] \notin DOMAIN txs
                /\ ~DbReturned(PrevoutsOf(h)[k])

\* C19: a None answer of lookup_utxos or lookup_assets raises nothing: the
\* pass goes on, ends with one call of on_mempool, and txs then holds no
\* transaction spending a prevout that was answered None.
NoneAnswerIsDeferred ==
    none_answered # {} =>
        /\ pc # "crashed"
        /\ pc = "on_mempool" =>
              /\ calls = 1
              /\ \A h \in DOMAIN txs \cap hashes :
                    Range(txs[h].prevouts) \cap none_answered = {}

\* the utxo_map entry the claim expects for an answer of lookup_assets
AssetEntry(answer) == <<answer[1], answer[2], TRUE, answer[3]>>

\* C20: utxo_map[p] is built from the answers for p itself: when
\* lookup_assets answers (hashX, v, name) for the external prevout p,
\* utxo_map[p] is (hashX, v, True, name), and so is the in_pair of the
\* accepted transaction for p.
UtxoMapFromOwnAnswers ==
    /\ \A i \in 1..Len(tasks) :
          tasks[i].stage = "assets" =>
              LET prevouts == tasks[i].prevouts
                  answers  == lookup_assets(prevouts, {})
                  utxo_map == zip_utxo_map(prevouts, tasks[i].utxos \o asset_tuples(answers))
              IN \A k \in 1..Len(prevouts) :
                     utxo_map[prevouts[k]] = AssetEntry(answers[k])
    /\ \A h \in DOMAIN txs :
          \A k \in 1..Len(txs[h].prevouts) :
              txs[h].prevouts[k][1] \notin Hashes =>
                  txs[h].in_pairs[k] = AssetEntry(DbAsset(txs[h].prevouts[k]))

(***************************************************************************)
(* The queries                                                             *)
(***************************************************************************)
\* every key of hashXs maps to a non-empty set
HashXsHaveMembers == \A sh \in DOMAIN hashXs : hashXs[sh] # {}

\* C13: no query changes an index, the accumulators or the cached
\* histogram; a query about a hashX that is not indexed enters no key in
\* hashXs, so that through every interleaving of queries and reconciler
\* steps every key of hashXs maps to a non-empty set.
QueriesChangeNothing ==
    /\ []HashXsHaveMembers
    /\ [][Query => UNCHANGED <<idxVars, accVars, cached_compact_histogram>>]_vars

\* a pass has evicted the last transaction of a hashX, whose key is gone
\* while other keys remain: a client can ask about a hashX that is not
\* indexed, and about one that is
QueriesChangeNothingWitness ==
    /\ pc = "on_mempool"
    /\ \E sh \in DOMAIN prev_hashXs : sh \notin DOMAIN hashXs
    /\ DOMAIN hashXs # {}
    /\ "s9" \notin DOMAIN hashXs
    /\ ENABLED BalanceDelta

\* the native value a tuple of pairs carries for one hashX
NativeFor(pairs, sh) ==
    SumFn([i \in {k \in 1..Len(pairs) : pairs[k][1] = sh /\ ~pairs[k][3]} |-> pairs[i][2]],
          {k \in 1..Len(pairs) : pairs[k][1] = sh /\ ~pairs[k][3]})

\* C14: balance_delta(sh) is the sum over every tx of txs of the native
\* values its out_pairs pay to sh minus the native values its in_pairs
\* spend from sh (a tx that does both is counted once), and 0 when sh is
\* not indexed.
BalanceDeltaIsNativeSum ==
    \A sh \in QueryKeys :
        /\ balance_delta(Indices, sh).result =
              SumFn([h \in DOMAIN txs |->
                        NativeFor(txs[h].out_pairs, sh) - NativeFor(txs[h].in_pairs, sh)],
                    DOMAIN txs)
        /\ sh \notin DOMAIN hashXs => balance_delta(Indices, sh).result = 0

\* txs holds B, which spends 20 from s0 and pays 3 back to s0, and C, whose
\* asset output to s3 B spends: the delta of s0 is -17, that of s3 the
\* native 2 of C, and s1 is not indexed
BalanceDeltaIsNativeSumWitness ==
    /\ DOMAIN txs = {"B", "C"}
    /\ balance_delta(Indices, "s0").result = -17
    /\ balance_delta(Indices, "s3").result = 2
    /\ "s1" \notin DOMAIN hashXs
    /\ balance_delta(Indices, "s1").result = 0

\* some input of a transaction of the catalogue names a tx hash of txs
SpendsFromMempool(h) ==
    \E i \in 1..Len(RawCatalogue[h].inputs) :
        /\ ~RawCatalogue[h].inputs[i].gen
        /\ RawCatalogue[h].inputs[i].prev_hash \in DOMAIN txs

\* C15: transaction_summaries(sh) returns exactly one summary per tx hash
\* of hashXs[sh], whose has_unconfirmed_inputs is true if and only if some
\* prevout of the tx names a key of txs at the time of the query.
SummariesFlagMempoolParents ==
    \A sh \in QueryKeys :
        LET result == transaction_summaries(Indices, sh).result
        IN /\ Len(result) = Cardinality(Get(hashXs, sh, {}))
           /\ {result[k].hash : k \in 1..Len(result)} = Get(hashXs, sh, {})
           /\ \A k \in 1..Len(result) :
                 /\ result[k].has_unconfirmed_inputs <=> SpendsFromMempool(result[k].hash)
                 /\ result[k].fee = txs[result[k].hash].fee

\* B was accepted with its parent C in the mempool; the pass under way has
\* evicted C and B remains: its summary now reports no unconfirmed input
SummariesFlagMempoolParentsWitness ==
    /\ pc = "on_mempool"
    /\ "C" \in evicted
    /\ "B" \in DOMAIN txs
    /\ \E k \in 1..Len(transaction_summaries(Indices, "s2").result) :
          /\ transaction_summaries(Indices, "s2").result[k].hash = "B"
          /\ ~transaction_summaries(Indices, "s2").result[k].has_unconfirmed_inputs

(***************************************************************************)
(* The histogram and the fixed-point loop                                  *)
(***************************************************************************)
\* C16: the fee rates of the list _compress_histogram returns are strictly
\* decreasing.
CompactRatesDecrease ==
    pc = "compressed" =>
        \A i \in 1..(Len(compact) - 1) : compact[i][1] > compact[i + 1][1]

\* the list has an entry emitted by the first test of a pass (its size does
\* not exceed bin_size) followed by the entry of the large bucket itself
CompactRatesDecreaseWitness ==
    /\ pc = "compressed"
    /\ \E i \in 1..(Len(compact) - 1) :
          /\ compact[i][2] <= bin_size
          /\ compact[i + 1][2] > 2 * bin_size
          /\ compact[i + 1][1] = compact[i][1] - 1

\* what a pass of the loop leaves of a deferred transaction: nothing in
\* txs, in hashXs or in the transaction itself
DeferredUntouched ==
    \A h \in DOMAIN gathered.txs :
        /\ h \notin DOMAIN txs
        /\ \A sh \in DOMAIN hashXs : h \notin hashXs[sh]
        /\ gathered.txs[h].in_pairs = <<>>
        /\ gathered.txs[h].fee = 0

\* C18: the fixed-point loop makes at most |tx_map| + 1 passes; each pass
\* either leaves fewer deferred transactions or is the last one; a deferred
\* transaction is in no index, and touched grows by the hashXs of the
\* transactions the pass accepted and by nothing else.
FixedPointTerminates ==
    /\ [](passes <= first_count + 1 /\ DeferredUntouched)
    /\ [][passes' = passes + 1 =>
            /\ \/ Len(gathered'.order) < Len(gathered.order)
               \/ gathered'.order = <<>>
               \/ Len(gathered'.order) = prior_count'
            /\ DOMAIN gathered'.txs \subseteq DOMAIN gathered.txs
            /\ touched' = touched \cup
                  UNION {PairHashXs(txs'[h]) : h \in (DOMAIN txs') \ (DOMAIN txs)}]_vars

\* a chain of three transactions given child first was accepted in three
\* passes, one link per pass
FixedPointTerminatesWitness ==
    /\ pc = "returned"
    /\ first_count = 3
    /\ passes = 3
    /\ DOMAIN txs = Hashes


\* a forward asset index and its reverse index agree: the names listed by
\* the reverse index are the keys of the forward index, and the hash that
\* lists a name is the source of the record of that name
IndicesAgree(forward, reverse) ==
    \A name \in AssetNames :
        /\ name \in DOMAIN forward <=> \E h \in DOMAIN reverse : name \in reverse[h]
        /\ \A h \in DOMAIN reverse :
              name \in reverse[h] =>
                  name \in DOMAIN forward /\ SourceOf(forward[name]) = h

\* C21: at the end of every successful pass the forward and the reverse
\* asset indices agree: a name is a key of asset_creates exactly when some
\* tx_to_asset_create[h] lists it, and then h is the source of its record;
\* likewise for asset_reissues and tx_to_asset_reissue.
ForwardAndReverseAgree ==
    pc = "on_mempool" =>
        /\ IndicesAgree(asset_creates, tx_to_asset_create)
        /\ IndicesAgree(asset_reissues, tx_to_asset_reissue)


\* every transaction of txs has its inputs resolved and its fee computed
FinalFees ==
    \A h \in DOMAIN txs :
        /\ Len(txs[h].in_pairs) = Len(txs[h].prevouts)
        /\ txs[h].fee = tx_fee(txs[h].in_pairs, txs[h].out_pairs)

\* a call of _process_mempool is suspended on a fetch or a DB lookup
ProcessMempoolSuspended == pc = "gather"

\* C22: the histogram task and the reconciler never hold the lock together:
\* while _update_histogram runs no call of _process_mempool is under way and
\* txs does not change, txs only changes inside _process_mempool, and the
\* histogram is built from a txs in which every transaction has its final
\* fee.
HistogramExcludesReconciler ==
    /\ [](hpc = "thread" =>
             /\ lock = "histogram"
             /\ ~ProcessMempoolSuspended
             /\ FinalFees)
    /\ [](ProcessMempoolSuspended => lock = "refresh")
    /\ [][hpc = "thread" => txs' = txs]_vars
    /\ [][txs' # txs => lock # "histogram" /\ pc \in {"fetched", "gather"}]_vars
    /\ [][hpc = "thread" /\ hpc' = "sleep" => histogram' = fee_histogram(txs)]_vars

\* the histogram thread runs on a non-empty txs while the reconciler, with
\* new hashes to fetch, waits for the lock
HistogramExcludesReconcilerWitness ==
    /\ hpc = "thread"
    /\ pc = "fetched"
    /\ DOMAIN txs # {}
    /\ hashes \ DOMAIN txs # {}


\* some pass has ended with synchronized_event.set()
SomePassSucceeded == pc = "on_mempool" \/ prev_hashes # {"-"}

\* a step in which a pass ends successfully and the event is set
PassSucceeds == pc # "on_mempool" /\ pc' = "on_mempool"

\* C23: if passes succeed infinitely often then the histogram is rebuilt
\* infinitely often, and the histogram task does not leave its first wait
\* before a pass has succeeded.
HistogramRebuiltForever ==
    /\ [](hpc \in {"lock", "thread", "sleep"} => SomePassSucceeded)
    /\ ([]<><<PassSucceeds>>_vars) => ([]<><<HistogramUpdate>>_vars)

\* the event was set while the task was sleeping, and the task, woken by a
\* later set(), is rebuilding the histogram
HistogramRebuiltForeverWitness ==
    /\ missed
    /\ hpc = "thread"


\* C24: every entry (fee_rate, cum_size) that _compress_histogram returns
\* holds at least the bin_size it was called with.
TranchesReachBinSize ==
    pc = "compressed" =>
        \A i \in 1..Len(compact) : compact[i][2] >= bin_size


\* the mempool holds the single transaction A
SingleTx == DOMAIN txs = {"A"}

\* C25: for a mempool of one transaction with fee f and size s, run through
\* _update_histogram(bin_size), the histogram has the single bucket
\* floor(10 * f / s) (in tenths) holding s, and the compact histogram is
\* [(bucket, s)] if s > bin_size and [] otherwise; f = 1000, s = 250 and
\* bin_size = 100 give [(4.0, 250)].
SingleTxHistogram ==
    (pc = "updated" /\ SingleTx) =>
        LET f      == txs["A"].fee
            sz     == txs["A"].size
            bucket == CHOOSE b \in 0..(10 * f) : b * sz <= 10 * f /\ 10 * f < (b + 1) * sz
        IN /\ DOMAIN histogram = {bucket}
           /\ histogram[bucket] = sz
           /\ cached_compact_histogram =
                 IF sz > bin_size THEN <<(<<bucket, sz>>)>> ELSE <<>>
           /\ (f = 1000 /\ sz = 250 /\ bin_size = 100) =>
                 cached_compact_histogram = <<(<<40, 250>>)>>

\* the documented example has run
SingleTxHistogramWitness ==
    /\ pc = "updated"
    /\ SingleTx
    /\ txs["A"].fee = 1000
    /\ txs["A"].size = 250
    /\ bin_size = 100
    /\ cached_compact_histogram = <<(<<40, 250>>)>>

=============================================================================
